---- MODULE Spec2Model ----
(***************************************************************************)
(* State-machine model of the settlement orchestrator                      *)
(* (PaymentIntentsService) and the chain settlement executor               *)
(* (BasePaymentService.executePayment).                                    *)
(*                                                                         *)
(* Every handler is an async function: it runs atomically between two      *)
(* awaits and any other handler may run while it waits.  Each action below *)
(* is one such atomic segment; a call's position is its pc.                *)
(***************************************************************************)
EXTENDS Integers, Sequences, FiniteSets, Bags, TLC

(* ------------------------------ bounds -------------------------------- *)
MaxIntents == 1
MaxInFlight == 2
MaxTxs == 2
MaxTicks == 1
MaxFunds == 1

(* -------------------------- program constants ------------------------- *)
TTL == 10 * 60 * 1000
UsdcDecimals == 6

(* ------------------------------ inputs -------------------------------- *)
\* amounts are given in cents (CreateIntentDto: @Min(0.01))
Amounts == {1}
Recipients == {"0xR"}
Undefined == "undefined"
Dtos ==
  { [settle_proof |-> "P1", tx_hash |-> "S1", payer_wallet |-> "W1"],
    [settle_proof |-> "P2", tx_hash |-> "S2", payer_wallet |-> Undefined] }
VerifierOutcomes == {"valid", "invalid", "non2xx", "unreachable"}
\* what one replenishment adds to the settlement wallet, in USDC base units
FundAmounts == {20000}
\* BASE_NETWORK: Joi.string().valid('base-sepolia', 'base')
BaseNetworks == {"base-sepolia", "base"}
\* the milliseconds between Date.now() in createIntent and the insert
InsertDelays == {0, 5}

(* ------------------------------ values -------------------------------- *)
Null == <<>>
Some(v) == <<v>>

\* dto.payer_wallet || null
OrNull(x) == IF x = Undefined \/ x = "" THEN Null ELSE Some(x)

\* parseUnits(parseFloat(intent.amount).toString(), 6) for an amount in cents
AmountInUsdc(a) == a * (10 ^ (UsdcDecimals - 2))

\* `base_settlement_${txHash}`
SettlementProof(txHash) == <<"base_settlement", txHash>>

VARIABLES
  db,          \* the payment_intents table: db[id] is the record of intent id
  calls,       \* the bag of service calls in flight (between two awaits)
  immediates,  \* the setImmediate callbacks not yet run, oldest first
  out,         \* the response sent by the latest step, if it sent one
  hist,        \* per intent: what has happened to it so far
  now,         \* Date.now()
  balance,     \* USDC balance of the settlement wallet, in base units
  funds,       \* the number of replenishments so far
  txs,         \* the transfers submitted to the target chain; txs[h] has hash h
  baseNetwork  \* the configured base.network of the process

vars == <<db, calls, immediates, out, hist, now, balance, funds, txs, baseNetwork>>

IntentIds == 1 .. MaxIntents

\* a record whose time to live is counted in seconds
NewIntentTtlInSeconds(id, amount, recipient, at) ==
  [ intent_id |-> id, amount |-> amount, merchant_recipient |-> recipient,
    payer_chain |-> "solana", target_chain |-> "base", status |-> "PENDING",
    expires_at |-> at + 10 * 60,
    sol_settle_proof |-> Null, sol_tx_hash |-> Null, payer_wallet |-> Null,
    sol_settled_at |-> Null,
    base_tx_hash |-> Null, base_settle_proof |-> Null, base_settled_at |-> Null,
    completed_at |-> Null ]

\* the data createIntent passes to create, at being what Date.now() returned
NewIntent(id, amount, recipient, at) ==
  [ intent_id |-> id, amount |-> amount, merchant_recipient |-> recipient,
    payer_chain |-> "solana", target_chain |-> "base", status |-> "PENDING",
    expires_at |-> at + TTL,
    sol_settle_proof |-> Null, sol_tx_hash |-> Null, payer_wallet |-> Null,
    sol_settled_at |-> Null,
    base_tx_hash |-> Null, base_settle_proof |-> Null, base_settled_at |-> Null,
    completed_at |-> Null ]

\* the row the store inserts for data: created_at is not in the data, the
\* store sets it to its clock at the time t the insert is applied
Create(data, t) ==
  [ intent_id |-> data.intent_id, amount |-> data.amount,
    merchant_recipient |-> data.merchant_recipient,
    payer_chain |-> data.payer_chain, target_chain |-> data.target_chain,
    status |-> data.status,
    created_at |-> t, expires_at |-> data.expires_at,
    sol_settle_proof |-> data.sol_settle_proof,
    sol_tx_hash |-> data.sol_tx_hash, payer_wallet |-> data.payer_wallet,
    sol_settled_at |-> data.sol_settled_at,
    base_tx_hash |-> data.base_tx_hash,
    base_settle_proof |-> data.base_settle_proof,
    base_settled_at |-> data.base_settled_at,
    completed_at |-> data.completed_at ]

NoIntent == [Create(NewIntent(0, 0, "", 0), 0) EXCEPT !.status = ""]
NoDto == [settle_proof |-> "", tx_hash |-> "", payer_wallet |-> Undefined]
NoCreateIntentDto == [amount |-> 0, merchant_recipient |-> ""]

\* one invocation of a service method
NewCall(op, id, origin) ==
  [ op |-> op, id |-> id, origin |-> origin, pc |-> "",
    intent |-> NoIntent, dto |-> NoDto, createIntentDto |-> NoCreateIntentDto,
    at |-> 0, txHash |-> 0,
    err |-> "", invoked |-> FALSE, wrote |-> FALSE, afterProof |-> FALSE,
    overdue |-> FALSE, retry |-> FALSE, fresh |-> FALSE,
    seen |-> Null, sent |-> 0, recovery |-> FALSE ]

\* the object getIntent returns for the record it read
IntentView(intent, status) ==
  [ intent_id |-> intent.intent_id, amount |-> intent.amount,
    merchant_recipient |-> intent.merchant_recipient,
    payer_wallet |-> intent.payer_wallet, status |-> status,
    sol_tx_hash |-> intent.sol_tx_hash, base_tx_hash |-> intent.base_tx_hash,
    created_at |-> intent.created_at, sol_settled_at |-> intent.sol_settled_at,
    base_settled_at |-> intent.base_settled_at,
    completed_at |-> intent.completed_at, expires_at |-> intent.expires_at ]

\* the object createIntent returns for the row that create returned
CreatedView(intent) ==
  [ intent_id |-> intent.intent_id, amount |-> intent.amount,
    merchant_recipient |-> intent.merchant_recipient,
    status |-> intent.status, created_at |-> intent.created_at,
    expires_at |-> intent.expires_at ]

\* what a call answers: its outcome and, on success, the status it reports
\* (getIntent and createIntent: the whole object they return)
Response(call, res, status) ==
  [ op |-> call.op, id |-> call.id, origin |-> call.origin, res |-> res,
    status |-> status, err |-> call.err, read |-> call.intent.status,
    at |-> call.at,
    body |-> IF call.op = "getIntent" /\ res = "ok"
               THEN IntentView(call.intent, status)
             ELSE IF call.op = "createIntent" /\ res = "ok"
               THEN CreatedView(call.intent) ELSE Null,
    tx_hash |-> call.dto.tx_hash, txHash |-> call.txHash,
    invoked |-> call.invoked, wrote |-> call.wrote,
    afterProof |-> call.afterProof, overdue |-> call.overdue,
    retry |-> call.retry, fresh |-> call.fresh,
    seen |-> call.seen, sent |-> call.sent,
    recovery |-> call.recovery, reason |-> "", lost |-> {} ]

NoResponse == Response(NewCall("", 0, ""), "", "")

NoHistory == [proofs |-> 0, settlements |-> 0]

Exists(id) == id \in DOMAIN db

\* a lookup that returns the first record of the table, whatever its id
FindFirst(id) == IF db # <<>> THEN db[1] ELSE NoIntent

\* findUnique({ where: { intent_id } }): the row, or null
FindUnique(id) == IF Exists(id) THEN db[id] ELSE NoIntent

\* !intent
IsNull(intent) == intent = NoIntent

InFlight == BagToSet(calls)
Put(bag, call) == bag (+) SetToBag({call})
Take(bag, call) == bag (-) SetToBag({call})
At(c, op, pc) == c \in InFlight /\ c.op = op /\ c.pc = pc

\* a request is taken up only while fewer than MaxInFlight calls are in flight
CanStart == BagCardinality(calls) < MaxInFlight

Init ==
  /\ db = <<>>
  /\ calls = EmptyBag
  /\ immediates = <<>>
  /\ out = NoResponse
  /\ hist = <<>>
  /\ now = 0
  /\ balance = 0
  /\ funds = 0
  /\ txs = <<>>
  /\ baseNetwork \in BaseNetworks

(* ----------------------------- environment ---------------------------- *)
\* time passes (it is counted from the creation of the first intent)
Tick ==
  /\ db # <<>>
  /\ now < MaxTicks * TTL
  /\ now' = now + TTL
  /\ out' = NoResponse
  /\ UNCHANGED <<db, calls, immediates, hist, balance, funds, txs, baseNetwork>>

Fund ==
  /\ funds < MaxFunds
  /\ \E k \in FundAmounts : balance' = balance + k
  /\ funds' = funds + 1
  /\ out' = NoResponse
  /\ UNCHANGED <<db, calls, immediates, hist, now, txs, baseNetwork>>

\* the network includes a submitted transfer in a block
Mine ==
  \E t \in DOMAIN txs :
    /\ txs[t].state = "pending"
    /\ IF balance >= txs[t].value
         THEN /\ txs' = [txs EXCEPT ![t].state = "success"]
              /\ balance' = balance - txs[t].value
         ELSE /\ txs' = [txs EXCEPT ![t].state = "reverted"]
              /\ balance' = balance
    /\ out' = NoResponse
    /\ UNCHANGED <<db, calls, immediates, hist, now, funds, baseNetwork>>

(* ----------------------------- createIntent --------------------------- *)
\* the createIntent calls whose insert the store has not applied yet
Creating ==
  {c \in InFlight : c.op = "createIntent" /\ c.pc = "create"}

\* uuidv4() and Date.now(), up to the await of create: the call holds its
\* dto and the time it read; at most n intents are created.  The table is
\* indexed by the order in which the rows are inserted, so the identifier
\* that uuidv4() drew gets its name when the row is inserted
createIntentStartUpTo(n) ==
  /\ CanStart
  /\ Len(db) + BagCardinality([c \in Creating |-> calls[c]]) < n
  /\ \E a \in Amounts, r \in Recipients :
       calls' = Put(calls, [NewCall("createIntent", 0, "client") EXCEPT
                              !.pc = "create", !.at = now,
                              !.createIntentDto =
                                [amount |-> a, merchant_recipient |-> r]])
  /\ out' = NoResponse
  /\ UNCHANGED <<db, immediates, hist, now, balance, funds, txs, baseNetwork>>

createIntentStart == createIntentStartUpTo(MaxIntents)

\* the store applies the insert, some milliseconds after Date.now(), and
\* stamps created_at; create returns the row
createIntentInsert ==
  \E c \in InFlight, d \in InsertDelays :
    /\ At(c, "createIntent", "create")
    /\ LET row == Create(NewIntent(Len(db) + 1, c.createIntentDto.amount,
                                   c.createIntentDto.merchant_recipient, c.at),
                         now + d) IN
       /\ db' = Append(db, row)
       /\ calls' = Put(Take(calls, c),
                       [c EXCEPT !.pc = "answer", !.id = row.intent_id,
                                 !.intent = row])
    /\ now' = now + d
    /\ hist' = Append(hist, NoHistory)
    /\ out' = NoResponse
    /\ UNCHANGED <<immediates, balance, funds, txs, baseNetwork>>

\* the call returns the object built from the row (201 at the controller)
createIntentAnswer ==
  \E c \in InFlight :
    /\ At(c, "createIntent", "answer")
    /\ calls' = Take(calls, c)
    /\ out' = Response(c, "ok", c.intent.status)
    /\ UNCHANGED <<db, immediates, hist, now, balance, funds, txs, baseNetwork>>

(* ------------------------------ getIntent ----------------------------- *)
\* an expiry test that also holds at the instant expires_at itself
IsAtOrPastExpiry(intent, t) == t >= intent.expires_at

\* new Date() > intent.expires_at
IsPastExpiry(intent, t) == t > intent.expires_at

\* the lazy-expiry condition of getIntent
ShouldExpire(intent, t) == IsPastExpiry(intent, t) /\ intent.status = "PENDING"

\* the latest step was the answer of the createIntent call that stored
\* intent id
JustCreated(id) == out.op = "createIntent" /\ out.id = id /\ out.res = "ok"

\* the handler up to its await, and findUnique reading the row
getIntentFindOn(ids) ==
  /\ CanStart
  /\ \E id \in ids :
       calls' = Put(calls, [NewCall("getIntent", id, "client") EXCEPT
                              !.pc = "check", !.intent = FindUnique(id),
                              !.fresh = JustCreated(id),
                              !.afterProof = Exists(id) /\ hist[id].proofs > 0])
  /\ out' = NoResponse
  /\ UNCHANGED <<db, immediates, hist, now, balance, funds, txs, baseNetwork>>

getIntentFind == getIntentFindOn(IntentIds)

\* a missing intent is returned as null (NotFound at the controller); else
\* the expiry test on the record read, with the clock as it is now: the
\* call returns the record, or issues the update
getIntentCheck ==
  \E c \in InFlight :
    /\ At(c, "getIntent", "check")
    /\ IF IsNull(c.intent)
         THEN /\ calls' = Take(calls, c)
              /\ out' = Response(c, "NotFound", "")
         ELSE IF ShouldExpire(c.intent, now)
           THEN /\ calls' = Put(Take(calls, c),
                                [c EXCEPT !.pc = "expire", !.at = now])
                /\ out' = NoResponse
           ELSE /\ calls' = Take(calls, c)
                /\ out' = Response([c EXCEPT !.at = now], "ok", c.intent.status)
    /\ UNCHANGED <<db, immediates, hist, now, balance, funds, txs, baseNetwork>>

\* the store applies update({ where: { intent_id }, data: { status: 'EXPIRED' } })
getIntentExpire ==
  \E c \in InFlight :
    /\ At(c, "getIntent", "expire")
    /\ db' = [db EXCEPT ![c.id].status = "EXPIRED"]
    /\ calls' = Put(Take(calls, c), [c EXCEPT !.pc = "return", !.wrote = TRUE])
    /\ out' = NoResponse
    /\ UNCHANGED <<immediates, hist, now, balance, funds, txs, baseNetwork>>

\* intent.status = 'EXPIRED' and the return
getIntentReturn ==
  \E c \in InFlight :
    /\ At(c, "getIntent", "return")
    /\ calls' = Take(calls, c)
    /\ out' = Response(c, "ok", "EXPIRED")
    /\ UNCHANGED <<db, immediates, hist, now, balance, funds, txs, baseNetwork>>

(* ------------------------------ getReceipt ---------------------------- *)
\* network === 'mainnet-beta' ? ... : ...: solana.network is 'solana-devnet'
\* or 'solana-mainnet-beta', neither of which is 'mainnet-beta'
SolanaExplorerBase == "https://solscan.io?cluster=devnet"

\* baseNetwork === 'base' ? 'https://basescan.org' : 'https://sepolia.basescan.org'
BaseExplorerBase(network) ==
  IF network = "base" THEN "https://basescan.org"
                      ELSE "https://sepolia.basescan.org"

\* `${explorerBase}/tx/${txHash}`
ExplorerUrl(base, txHash) == <<base, "/tx/", txHash>>

\* x ? ... : null on a nullable column; a stored hash is never the empty
\* string (SolanaProofDto: @IsNotEmpty() tx_hash; a transaction hash)
Truthy(x) == x # Null

\* the object getReceipt returns for the record it read
Receipt(intent) ==
  [ intent_id |-> intent.intent_id, amount |-> intent.amount,
    merchant_recipient |-> intent.merchant_recipient,
    payer_wallet |-> intent.payer_wallet, status |-> intent.status,
    solana_payment |->
      IF Truthy(intent.sol_tx_hash)
        THEN Some([ tx_hash |-> intent.sol_tx_hash,
                    settle_proof |-> intent.sol_settle_proof,
                    settled_at |-> intent.sol_settled_at,
                    explorer_url |->
                      ExplorerUrl(SolanaExplorerBase, intent.sol_tx_hash) ])
        ELSE Null,
    base_payment |->
      IF Truthy(intent.base_tx_hash)
        THEN Some([ tx_hash |-> intent.base_tx_hash,
                    settle_proof |-> intent.base_settle_proof,
                    settled_at |-> intent.base_settled_at,
                    explorer_url |->
                      ExplorerUrl(BaseExplorerBase(baseNetwork),
                                  intent.base_tx_hash) ])
        ELSE Null,
    created_at |-> intent.created_at, completed_at |-> intent.completed_at,
    expires_at |-> intent.expires_at ]

\* the handler up to its await, and findUnique reading the row
getReceiptFindOn(ids) ==
  /\ CanStart
  /\ \E id \in ids :
       calls' = Put(calls, [NewCall("getReceipt", id, "client") EXCEPT
                              !.pc = "return", !.intent = FindUnique(id)])
  /\ out' = NoResponse
  /\ UNCHANGED <<db, immediates, hist, now, balance, funds, txs, baseNetwork>>

\* GET /intents/:id/receipt
getReceiptFind == getReceiptFindOn(IntentIds)

\* the answer of getReceipt for the record read; a missing intent is
\* returned as null
ReceiptResponse(c) ==
  IF IsNull(c.intent)
    THEN Response(c, "NotFound", "")
    ELSE [Response([c EXCEPT !.at = now], "ok", c.intent.status)
            EXCEPT !.body = Receipt(c.intent)]

\* a getReceipt that applies the lazy expiry of getIntent before answering
getReceiptReturnExpiring ==
  \E c \in InFlight :
    /\ At(c, "getReceipt", "return")
    /\ calls' = Take(calls, c)
    /\ out' = ReceiptResponse(c)
    /\ db' = IF ~IsNull(c.intent) /\ ShouldExpire(c.intent, now)
                THEN [db EXCEPT ![c.id].status = "EXPIRED"]
                ELSE db
    /\ UNCHANGED <<immediates, hist, now, balance, funds, txs, baseNetwork>>

\* the projection of the record read
getReceiptReturn ==
  \E c \in InFlight :
    /\ At(c, "getReceipt", "return")
    /\ calls' = Take(calls, c)
    /\ out' = ReceiptResponse(c)
    /\ UNCHANGED <<db, immediates, hist, now, balance, funds, txs, baseNetwork>>

(* --------------------------- submitSolanaProof ------------------------ *)
\* a guard that lets a proof through until the target leg has begun
ProofAcceptedBeforeTargetLeg(intent) ==
  intent.status \in {"PENDING", "SOL_SETTLED"}

\* intent.status !== 'PENDING' throws BadRequestException
ProofAccepted(intent) == intent.status = "PENDING"

\* the verifier outcomes on which verifyX402Proof throws
VerifierFailures == VerifierOutcomes \ {"valid"}

\* the latest step answered a submitSolanaProof call on id with a failed
\* verification
JustRefused(id) ==
  out.op = "submitSolanaProof" /\ out.id = id /\ out.err \in VerifierFailures

\* the handler up to its await, and findUnique reading the row
submitSolanaProofFindOn(ids) ==
  /\ CanStart
  /\ \E id \in ids, dto \in Dtos :
       calls' = Put(calls, [NewCall("submitSolanaProof", id, "client") EXCEPT
                              !.pc = "check", !.intent = FindUnique(id),
                              !.dto = dto,
                              !.afterProof = Exists(id) /\ hist[id].proofs > 0,
                              !.retry = JustRefused(id),
                              !.overdue = Exists(id) /\ IsPastExpiry(db[id], now)])
  /\ out' = NoResponse
  /\ UNCHANGED <<db, immediates, hist, now, balance, funds, txs, baseNetwork>>

submitSolanaProofFind == submitSolanaProofFindOn(IntentIds)

\* the two guards on the record read; past them verifyX402Proof is called
submitSolanaProofCheck ==
  \E c \in InFlight :
    /\ At(c, "submitSolanaProof", "check")
    /\ IF IsNull(c.intent)
         THEN /\ calls' = Take(calls, c)
              /\ out' = Response(c, "NotFound", "")
         ELSE IF ~ProofAccepted(c.intent)
           THEN /\ calls' = Take(calls, c)
                /\ out' = Response([c EXCEPT !.err = "state"], "BadRequest", "")
           ELSE /\ calls' = Put(Take(calls, c), [c EXCEPT !.pc = "verify"])
                /\ out' = NoResponse
    /\ UNCHANGED <<db, immediates, hist, now, balance, funds, txs, baseNetwork>>

\* catch (error) { throw new BadRequestException(...) }: whatever made
\* verifyX402Proof throw, the call fails with the same exception class
ProofErrorClass(outcome) == "BadRequest"

\* a verification step that schedules the target leg whatever the outcome
submitSolanaProofVerifyDispatching ==
  \E c \in InFlight, outcome \in VerifierOutcomes :
    /\ At(c, "submitSolanaProof", "verify")
    /\ IF outcome = "valid"
         THEN /\ calls' = Put(Take(calls, c), [c EXCEPT !.pc = "update", !.at = now])
              /\ out' = NoResponse
         ELSE /\ calls' = Take(calls, c)
              /\ out' = Response([c EXCEPT !.err = outcome],
                                 ProofErrorClass(outcome), "")
    /\ immediates' = Append(immediates, c.id)
    /\ UNCHANGED <<db, hist, now, balance, funds, txs, baseNetwork>>

\* verifyX402Proof: every failure is rethrown as BadRequestException
submitSolanaProofVerify ==
  \E c \in InFlight, outcome \in VerifierOutcomes :
    /\ At(c, "submitSolanaProof", "verify")
    /\ IF outcome = "valid"
         THEN /\ calls' = Put(Take(calls, c), [c EXCEPT !.pc = "update", !.at = now])
              /\ out' = NoResponse
         ELSE /\ calls' = Take(calls, c)
              /\ out' = Response([c EXCEPT !.err = outcome],
                                 ProofErrorClass(outcome), "")
    /\ UNCHANGED <<db, immediates, hist, now, balance, funds, txs, baseNetwork>>

\* a source-leg update that takes the BASE_SETTLING lock for the callback it
\* is about to schedule
SourceLegLocking(intent, dto, at) ==
  [intent EXCEPT !.status = "BASE_SETTLING",
                 !.sol_settle_proof = Some(dto.settle_proof),
                 !.sol_tx_hash = Some(dto.tx_hash),
                 !.payer_wallet = OrNull(dto.payer_wallet),
                 !.sol_settled_at = Some(at)]

\* a source-leg update that also restarts the time to live
SourceLegExtendingExpiry(intent, dto, at) ==
  [intent EXCEPT !.status = "SOL_SETTLED",
                 !.sol_settle_proof = Some(dto.settle_proof),
                 !.sol_tx_hash = Some(dto.tx_hash),
                 !.payer_wallet = OrNull(dto.payer_wallet),
                 !.sol_settled_at = Some(at),
                 !.expires_at = at + TTL]

\* the data of the update that records the source leg
SourceLeg(intent, dto, at) ==
  [intent EXCEPT !.status = "SOL_SETTLED",
                 !.sol_settle_proof = Some(dto.settle_proof),
                 !.sol_tx_hash = Some(dto.tx_hash),
                 !.payer_wallet = OrNull(dto.payer_wallet),
                 !.sol_settled_at = Some(at)]

\* the store applies the update that records the source leg
submitSolanaProofUpdate ==
  \E c \in InFlight :
    /\ At(c, "submitSolanaProof", "update")
    /\ db' = [db EXCEPT ![c.id] = SourceLeg(@, c.dto, c.at)]
    /\ hist' = [hist EXCEPT ![c.id].proofs = @ + 1]
    /\ calls' = Put(Take(calls, c), [c EXCEPT !.pc = "return", !.wrote = TRUE])
    /\ out' = NoResponse
    /\ UNCHANGED <<immediates, now, balance, funds, txs, baseNetwork>>

\* a return that calls triggerBasePayment(id) in place: its findUnique is
\* issued, and reads the row, before submitSolanaProof returns
submitSolanaProofReturnInline ==
  \E c \in InFlight :
    /\ At(c, "submitSolanaProof", "return")
    /\ calls' = Put(Take(calls, c),
                    [NewCall("triggerBasePayment", c.id, "dispatch") EXCEPT
                       !.pc = "check", !.intent = FindUnique(c.id)])
    /\ out' = Response(c, "ok", "SOL_SETTLED")
    /\ UNCHANGED <<db, immediates, hist, now, balance, funds, txs, baseNetwork>>

\* setImmediate(() => triggerBasePayment(id)) and the return
submitSolanaProofReturn ==
  \E c \in InFlight :
    /\ At(c, "submitSolanaProof", "return")
    /\ immediates' = Append(immediates, c.id)
    /\ calls' = Take(calls, c)
    /\ out' = Response(c, "ok", "SOL_SETTLED")
    /\ UNCHANGED <<db, hist, now, balance, funds, txs, baseNetwork>>

(* -------------------------- triggerBasePayment ------------------------ *)
\* a guard that refuses the final statuses only
TriggerAcceptedUnlessFinal(intent) ==
  intent.status \notin {"BASE_SETTLED", "EXPIRED"}

\* a guard that lets a trigger through while the target leg is being settled
TriggerAcceptedWhileSettling(intent) ==
  intent.status \in {"SOL_SETTLED", "BASE_SETTLING"}

\* intent.status !== 'SOL_SETTLED' throws BadRequestException
TriggerAccepted(intent) == intent.status = "SOL_SETTLED"

\* the latest step was a restart of the process in which the setImmediate
\* callback for intent id was lost
JustLostDispatch(id) == out.op = "Restart" /\ id \in out.lost

\* the trigger calls in flight that have not yet submitted their transfer
MaySubmit ==
  {c \in InFlight :
     /\ c.op = "triggerBasePayment"
     /\ \/ c.pc \in {"lock", "balance", "transfer"}
        \/ c.pc = "check" /\ TriggerAccepted(c.intent)}

\* a trigger that will get past its guards is taken up only while its
\* transfer fits the bound on txs
CanTrigger ==
  Len(txs) + BagCardinality([c \in MaySubmit |-> calls[c]]) < MaxTxs

\* the handler up to its await, and findUnique reading the row
triggerBasePaymentFind(id, origin) ==
  /\ TriggerAccepted(FindUnique(id)) => CanTrigger
  /\ calls' = Put(calls, [NewCall("triggerBasePayment", id, origin) EXCEPT
                            !.pc = "check", !.intent = FindUnique(id),
                            !.recovery = origin = "client" /\ JustLostDispatch(id)])
  /\ out' = NoResponse

\* POST /intents/:id/trigger-base-payment
triggerBasePaymentClientOn(ids) ==
  /\ CanStart
  /\ \E id \in ids : triggerBasePaymentFind(id, "client")
  /\ UNCHANGED <<db, immediates, hist, now, balance, funds, txs, baseNetwork>>

triggerBasePaymentClient == triggerBasePaymentClientOn(IntentIds)

\* the setImmediate callback scheduled by submitSolanaProof
triggerBasePaymentDispatch ==
  /\ immediates # <<>>
  /\ CanStart
  /\ triggerBasePaymentFind(Head(immediates), "dispatch")
  /\ immediates' = Tail(immediates)
  /\ UNCHANGED <<db, hist, now, balance, funds, txs, baseNetwork>>

\* the two guards on the record read; past them the update that takes the
\* lock is issued
triggerBasePaymentCheck ==
  \E c \in InFlight :
    /\ At(c, "triggerBasePayment", "check")
    /\ IF IsNull(c.intent)
         THEN /\ calls' = Take(calls, c)
              /\ out' = Response(c, "NotFound", "")
         ELSE IF ~TriggerAccepted(c.intent)
           THEN /\ calls' = Take(calls, c)
                /\ out' = Response([c EXCEPT !.err = "state"], "BadRequest", "")
           ELSE /\ calls' = Put(Take(calls, c), [c EXCEPT !.pc = "lock"])
                /\ out' = NoResponse
    /\ UNCHANGED <<db, immediates, hist, now, balance, funds, txs, baseNetwork>>

\* the store applies update({ data: { status: 'BASE_SETTLING' } }), then
\* executePayment is called
triggerBasePaymentLock ==
  \E c \in InFlight :
    /\ At(c, "triggerBasePayment", "lock")
    /\ db' = [db EXCEPT ![c.id].status = "BASE_SETTLING"]
    /\ calls' = Put(Take(calls, c),
                    [c EXCEPT !.pc = "balance", !.invoked = TRUE, !.wrote = TRUE])
    /\ out' = NoResponse
    /\ UNCHANGED <<immediates, hist, now, balance, funds, txs, baseNetwork>>

\* a balance check with the comparison turned round
InsufficientReversed(bal, intent) == bal > AmountInUsdc(intent.amount)

\* Number(balance) < Number(amountInUsdc)
Insufficient(bal, intent) == bal < AmountInUsdc(intent.amount)

\* readContract(balanceOf) and the balance check
executePaymentBalance ==
  \E c \in InFlight, rpc \in {"ok", "error"} :
    /\ At(c, "triggerBasePayment", "balance")
    /\ calls' = Put(Take(calls, c),
         IF rpc = "error"
           THEN [c EXCEPT !.pc = "rollback", !.err = "network"]
           ELSE IF Insufficient(balance, c.intent)
             THEN [c EXCEPT !.pc = "rollback", !.err = "insufficient",
                            !.seen = Some(balance)]
             ELSE [c EXCEPT !.pc = "transfer", !.seen = Some(balance)])
    /\ out' = NoResponse
    /\ UNCHANGED <<db, immediates, hist, now, balance, funds, txs, baseNetwork>>

\* writeContract(transfer): the transaction is submitted, or the call throws
executePaymentTransfer ==
  \E c \in InFlight, rpc \in {"ok", "error"} :
    /\ At(c, "triggerBasePayment", "transfer")
    /\ IF rpc = "ok"
         THEN /\ txs' = Append(txs,
                   [intent |-> c.intent.intent_id,
                    to |-> c.intent.merchant_recipient,
                    value |-> AmountInUsdc(c.intent.amount),
                    state |-> "pending"])
              /\ calls' = Put(Take(calls, c),
                   [c EXCEPT !.pc = "confirm", !.txHash = Len(txs) + 1,
                             !.sent = @ + 1])
         ELSE /\ txs' = txs
              /\ calls' = Put(Take(calls, c),
                   [c EXCEPT !.pc = "rollback", !.err = "network"])
    /\ out' = NoResponse
    /\ UNCHANGED <<db, immediates, hist, now, balance, funds, baseNetwork>>

\* waitForTransactionReceipt: a receipt once the transfer is mined, or a throw
executePaymentConfirm ==
  \E c \in InFlight, got \in {"receipt", "error"} :
    /\ At(c, "triggerBasePayment", "confirm")
    /\ got = "receipt" => txs[c.txHash].state # "pending"
    /\ calls' = Put(Take(calls, c),
         IF got = "receipt"
           THEN [c EXCEPT !.pc = "finalize", !.at = now]
           ELSE [c EXCEPT !.pc = "rollback", !.err = "confirmation"])
    /\ out' = NoResponse
    /\ UNCHANGED <<db, immediates, hist, now, balance, funds, txs, baseNetwork>>

\* the data of the update that records the target leg
TargetLeg(intent, txHash, at) ==
  [intent EXCEPT !.status = "BASE_SETTLED",
                 !.base_tx_hash = Some(txHash),
                 !.base_settle_proof = Some(SettlementProof(txHash)),
                 !.base_settled_at = Some(at),
                 !.completed_at = Some(at)]

\* the store applies the update that completes the intent
triggerBasePaymentFinalize ==
  \E c \in InFlight :
    /\ At(c, "triggerBasePayment", "finalize")
    /\ db' = [db EXCEPT ![c.id] = TargetLeg(@, c.txHash, c.at)]
    /\ hist' = [hist EXCEPT ![c.id].settlements = @ + 1]
    /\ calls' = Put(Take(calls, c), [c EXCEPT !.pc = "return"])
    /\ out' = NoResponse
    /\ UNCHANGED <<immediates, now, balance, funds, txs, baseNetwork>>

\* the success answer
triggerBasePaymentReturn ==
  \E c \in InFlight :
    /\ At(c, "triggerBasePayment", "return")
    /\ calls' = Take(calls, c)
    /\ out' = Response(c, "ok", "BASE_SETTLED")
    /\ UNCHANGED <<db, immediates, hist, now, balance, funds, txs, baseNetwork>>

\* new InternalServerErrorException(`Base payment failed: ${error.message}`):
\* the cause is in the text of the message only, the answer has no field
\* for it
SubReason(err) == ""

\* the answer of a call whose target leg failed
SettlementFailed(c) ==
  [Response(c, "InternalServerError", "") EXCEPT !.reason = SubReason(c.err)]

\* a rollback that also resets the source-leg columns
triggerBasePaymentRollbackClearing ==
  \E c \in InFlight :
    /\ At(c, "triggerBasePayment", "rollback")
    /\ db' = [db EXCEPT ![c.id].status = "SOL_SETTLED",
                         ![c.id].sol_settle_proof = Null,
                         ![c.id].sol_tx_hash = Null,
                         ![c.id].payer_wallet = Null,
                         ![c.id].sol_settled_at = Null]
    /\ calls' = Put(Take(calls, c), [c EXCEPT !.pc = "throw"])
    /\ out' = NoResponse
    /\ UNCHANGED <<immediates, hist, now, balance, funds, txs, baseNetwork>>

\* catch: the store applies update({ data: { status: 'SOL_SETTLED' } })
triggerBasePaymentRollback ==
  \E c \in InFlight :
    /\ At(c, "triggerBasePayment", "rollback")
    /\ db' = [db EXCEPT ![c.id].status = "SOL_SETTLED"]
    /\ calls' = Put(Take(calls, c), [c EXCEPT !.pc = "throw"])
    /\ out' = NoResponse
    /\ UNCHANGED <<immediates, hist, now, balance, funds, txs, baseNetwork>>

\* throw new InternalServerErrorException(...)
triggerBasePaymentThrow ==
  \E c \in InFlight :
    /\ At(c, "triggerBasePayment", "throw")
    /\ calls' = Take(calls, c)
    /\ out' = SettlementFailed(c)
    /\ UNCHANGED <<db, immediates, hist, now, balance, funds, txs, baseNetwork>>

(* ------------------------- the specification -------------------------- *)
Next ==
  \/ Tick
  \/ Fund
  \/ Mine
  \/ createIntentStart
  \/ createIntentInsert
  \/ createIntentAnswer
  \/ getIntentFind
  \/ getIntentCheck
  \/ getIntentExpire
  \/ getIntentReturn
  \/ getReceiptFind
  \/ getReceiptReturn
  \/ submitSolanaProofFind
  \/ submitSolanaProofCheck
  \/ submitSolanaProofVerify
  \/ submitSolanaProofUpdate
  \/ submitSolanaProofReturn
  \/ triggerBasePaymentClient
  \/ triggerBasePaymentDispatch
  \/ triggerBasePaymentCheck
  \/ triggerBasePaymentLock
  \/ executePaymentBalance
  \/ executePaymentTransfer
  \/ executePaymentConfirm
  \/ triggerBasePaymentFinalize
  \/ triggerBasePaymentReturn
  \/ triggerBasePaymentRollback
  \/ triggerBasePaymentThrow

Spec == Init /\ [][Next]_vars

(* ------------------------- one proof per intent ----------------------- *)
\* the process configured with the default network
InitDefault == Init /\ baseNetwork = "base-sepolia"

\* the clients submit the first proof of Dtos only
OneProof ==
  /\ \A c \in InFlight : c.dto.tx_hash \in {"", "S1"}
  /\ out.tx_hash \in {"", "S1"}

submitSolanaProofFindOneProof == submitSolanaProofFind /\ OneProof'

NextOneProof ==
  \/ Tick
  \/ Fund
  \/ Mine
  \/ createIntentStart
  \/ createIntentInsert
  \/ createIntentAnswer
  \/ getIntentFind
  \/ getIntentCheck
  \/ getIntentExpire
  \/ getIntentReturn
  \/ getReceiptFind
  \/ getReceiptReturn
  \/ submitSolanaProofFindOneProof
  \/ submitSolanaProofCheck
  \/ submitSolanaProofVerify
  \/ submitSolanaProofUpdate
  \/ submitSolanaProofReturn
  \/ triggerBasePaymentClient
  \/ triggerBasePaymentDispatch
  \/ triggerBasePaymentCheck
  \/ triggerBasePaymentLock
  \/ executePaymentBalance
  \/ executePaymentTransfer
  \/ executePaymentConfirm
  \/ triggerBasePaymentFinalize
  \/ triggerBasePaymentReturn
  \/ triggerBasePaymentRollback
  \/ triggerBasePaymentThrow

SpecOneProof == InitDefault /\ [][NextOneProof]_vars

(* ------------------------- two competing proofs ----------------------- *)
\* the clients submit every proof of Dtos, within the lifetime of the
\* intent, and ask for neither the intent nor its receipt
NextTwoProofs ==
  \/ Fund
  \/ Mine
  \/ createIntentStart
  \/ createIntentInsert
  \/ createIntentAnswer
  \/ submitSolanaProofFind
  \/ submitSolanaProofCheck
  \/ submitSolanaProofVerify
  \/ submitSolanaProofUpdate
  \/ submitSolanaProofReturn
  \/ triggerBasePaymentClient
  \/ triggerBasePaymentDispatch
  \/ triggerBasePaymentCheck
  \/ triggerBasePaymentLock
  \/ executePaymentBalance
  \/ executePaymentTransfer
  \/ executePaymentConfirm
  \/ triggerBasePaymentFinalize
  \/ triggerBasePaymentReturn
  \/ triggerBasePaymentRollback
  \/ triggerBasePaymentThrow

SpecTwoProofs == InitDefault /\ [][NextTwoProofs]_vars

(* ------------------------- receipts on both networks ------------------ *)
\* the process configured with either network; the clients ask for the
\* intent and for its receipt and leave the target leg to the dispatch
NextReceipt ==
  \/ Tick
  \/ Fund
  \/ Mine
  \/ createIntentStart
  \/ createIntentInsert
  \/ createIntentAnswer
  \/ getIntentFind
  \/ getIntentCheck
  \/ getIntentExpire
  \/ getIntentReturn
  \/ getReceiptFind
  \/ getReceiptReturn
  \/ submitSolanaProofFindOneProof
  \/ submitSolanaProofCheck
  \/ submitSolanaProofVerify
  \/ submitSolanaProofUpdate
  \/ submitSolanaProofReturn
  \/ triggerBasePaymentDispatch
  \/ triggerBasePaymentCheck
  \/ triggerBasePaymentLock
  \/ executePaymentBalance
  \/ executePaymentTransfer
  \/ executePaymentConfirm
  \/ triggerBasePaymentFinalize
  \/ triggerBasePaymentReturn
  \/ triggerBasePaymentRollback
  \/ triggerBasePaymentThrow

SpecReceipt == Init /\ [][NextReceipt]_vars

(* ------------------------------- faults ------------------------------- *)
\* the process stops and is started again: the calls between two awaits and
\* the setImmediate callbacks live in its memory and are lost; the table,
\* the chain and the clock are not (the event names the intents whose
\* callbacks are lost)
Restart ==
  /\ calls # EmptyBag \/ immediates # <<>>
  /\ calls' = EmptyBag
  /\ immediates' = <<>>
  /\ out' = [NoResponse EXCEPT
               !.op = "Restart", !.origin = "process",
               !.lost = {immediates[k] : k \in DOMAIN immediates}]
  /\ UNCHANGED <<db, hist, now, balance, funds, txs, baseNetwork>>

NextWithFaults ==
  \/ Tick
  \/ Fund
  \/ Mine
  \/ createIntentStart
  \/ createIntentInsert
  \/ createIntentAnswer
  \/ getIntentFind
  \/ getIntentCheck
  \/ getIntentExpire
  \/ getIntentReturn
  \/ getReceiptFind
  \/ getReceiptReturn
  \/ submitSolanaProofFindOneProof
  \/ submitSolanaProofCheck
  \/ submitSolanaProofVerify
  \/ submitSolanaProofUpdate
  \/ submitSolanaProofReturn
  \/ triggerBasePaymentClient
  \/ triggerBasePaymentDispatch
  \/ triggerBasePaymentCheck
  \/ triggerBasePaymentLock
  \/ executePaymentBalance
  \/ executePaymentTransfer
  \/ executePaymentConfirm
  \/ triggerBasePaymentFinalize
  \/ triggerBasePaymentReturn
  \/ triggerBasePaymentRollback
  \/ triggerBasePaymentThrow
  \/ Restart

SpecWithFaults == InitDefault /\ [][NextWithFaults]_vars

(* ------------------------ a reliable environment --------------------- *)
\* no call has met a failing verifier, a failing RPC or an empty wallet
NoFault ==
  /\ \A c \in InFlight : c.err = ""
  /\ out.err \in {"", "state"}

\* the steps that depend on the verifier, the chain or the wallet, when
\* these do not fail (a call waits for as long as the wallet is short)
submitSolanaProofVerified == submitSolanaProofVerify /\ NoFault'
executePaymentBalanceCovered == executePaymentBalance /\ NoFault'
executePaymentTransferSent == executePaymentTransfer /\ NoFault'
executePaymentConfirmed == executePaymentConfirm /\ NoFault'

NextReliable ==
  \/ Tick
  \/ Fund
  \/ Mine
  \/ createIntentStart
  \/ createIntentInsert
  \/ createIntentAnswer
  \/ getIntentFind
  \/ getIntentCheck
  \/ getIntentExpire
  \/ getIntentReturn
  \/ getReceiptFind
  \/ getReceiptReturn
  \/ submitSolanaProofFindOneProof
  \/ submitSolanaProofCheck
  \/ submitSolanaProofVerified
  \/ submitSolanaProofUpdate
  \/ submitSolanaProofReturn
  \/ triggerBasePaymentClient
  \/ triggerBasePaymentDispatch
  \/ triggerBasePaymentCheck
  \/ triggerBasePaymentLock
  \/ executePaymentBalanceCovered
  \/ executePaymentTransferSent
  \/ executePaymentConfirmed
  \/ triggerBasePaymentFinalize
  \/ triggerBasePaymentReturn

\* the event loop runs every continuation whose awaited result has arrived
\* and every setImmediate callback; the database, the verifier and the
\* chain answer; the network mines what was submitted.  Nothing is assumed
\* of the clients, the clock or the replenishment of the wallet.
Fairness ==
  /\ WF_vars(createIntentInsert)
  /\ WF_vars(createIntentAnswer)
  /\ WF_vars(getIntentCheck)
  /\ WF_vars(getIntentExpire)
  /\ WF_vars(getIntentReturn)
  /\ WF_vars(getReceiptReturn)
  /\ WF_vars(submitSolanaProofCheck)
  /\ WF_vars(submitSolanaProofVerified)
  /\ WF_vars(submitSolanaProofUpdate)
  /\ WF_vars(submitSolanaProofReturn)
  /\ SF_vars(triggerBasePaymentDispatch)
  /\ WF_vars(triggerBasePaymentCheck)
  /\ WF_vars(triggerBasePaymentLock)
  /\ WF_vars(executePaymentBalanceCovered)
  /\ WF_vars(executePaymentTransferSent)
  /\ WF_vars(executePaymentConfirmed)
  /\ WF_vars(triggerBasePaymentFinalize)
  /\ WF_vars(triggerBasePaymentReturn)
  /\ WF_vars(Mine)

SpecReliable == InitDefault /\ [][NextReliable]_vars /\ Fairness

(* ------------------------ two intents side by side -------------------- *)
\* one intent more than MaxIntents; a request is taken up once the call
\* before it has answered, while the setImmediate callbacks of one intent still run
\* between the requests on the other
MaxPair == MaxIntents + 1
PairIds == 1 .. MaxPair

OneAtATime == BagCardinality(calls) <= 1

\* the clock starts once both intents exist
TickOfPair == Tick /\ Len(db) = MaxPair

createIntentStartOfPair == createIntentStartUpTo(MaxPair)
getIntentFindOfPair == getIntentFindOn(PairIds) /\ OneAtATime'
getReceiptFindOfPair == getReceiptFindOn(PairIds) /\ OneAtATime'
submitSolanaProofFindOfPair ==
  submitSolanaProofFindOn(PairIds) /\ OneAtATime' /\ OneProof'
triggerBasePaymentClientOfPair ==
  triggerBasePaymentClientOn(PairIds) /\ OneAtATime'
triggerBasePaymentDispatchOfPair == triggerBasePaymentDispatch /\ OneAtATime'

NextPair ==
  \/ TickOfPair
  \/ Fund
  \/ Mine
  \/ createIntentStartOfPair
  \/ createIntentInsert
  \/ createIntentAnswer
  \/ getIntentFindOfPair
  \/ getIntentCheck
  \/ getIntentExpire
  \/ getIntentReturn
  \/ getReceiptFindOfPair
  \/ getReceiptReturn
  \/ submitSolanaProofFindOfPair
  \/ submitSolanaProofCheck
  \/ submitSolanaProofVerify
  \/ submitSolanaProofUpdate
  \/ submitSolanaProofReturn
  \/ triggerBasePaymentClientOfPair
  \/ triggerBasePaymentDispatchOfPair
  \/ triggerBasePaymentCheck
  \/ triggerBasePaymentLock
  \/ executePaymentBalance
  \/ executePaymentTransfer
  \/ executePaymentConfirm
  \/ triggerBasePaymentFinalize
  \/ triggerBasePaymentReturn
  \/ triggerBasePaymentRollback
  \/ triggerBasePaymentThrow

SpecPair == Init /\ [][NextPair]_vars

(* ---------------------- two creations side by side -------------------- *)
\* the calls in flight that serve a request on a stored intent
Requests == {c \in InFlight : c.op # "createIntent"}

\* the requests on stored intents are taken up one at a time, also while
\* createIntent calls are in flight; the wallet is not replenished, so
\* every transfer stops at the balance check
OneRequestAtATime == BagCardinality([c \in Requests |-> calls[c]]) <= 1

getIntentFindBeside == getIntentFindOn(PairIds) /\ OneRequestAtATime'
getReceiptFindBeside == getReceiptFindOn(PairIds) /\ OneRequestAtATime'
submitSolanaProofFindBeside ==
  submitSolanaProofFindOn(PairIds) /\ OneRequestAtATime' /\ OneProof'
triggerBasePaymentClientBeside ==
  triggerBasePaymentClientOn(PairIds) /\ OneRequestAtATime'
triggerBasePaymentDispatchBeside ==
  triggerBasePaymentDispatch /\ OneRequestAtATime'

NextCreate ==
  \/ Tick
  \/ createIntentStartOfPair
  \/ createIntentInsert
  \/ createIntentAnswer
  \/ getIntentFindBeside
  \/ getIntentCheck
  \/ getIntentExpire
  \/ getIntentReturn
  \/ getReceiptFindBeside
  \/ getReceiptReturn
  \/ submitSolanaProofFindBeside
  \/ submitSolanaProofCheck
  \/ submitSolanaProofVerify
  \/ submitSolanaProofUpdate
  \/ submitSolanaProofReturn
  \/ triggerBasePaymentClientBeside
  \/ triggerBasePaymentDispatchBeside
  \/ triggerBasePaymentCheck
  \/ triggerBasePaymentLock
  \/ executePaymentBalance
  \/ triggerBasePaymentRollback
  \/ triggerBasePaymentThrow

SpecCreate == Init /\ [][NextCreate]_vars

(* ------------------------------- claims ------------------------------- *)
\* the call that takes the step: it leaves the bag, or moves on in it (a
\* restart drops every call, and none of them takes a step)
Acting(c) ==
  /\ c \in InFlight
  /\ CopiesIn(c, calls') < CopiesIn(c, calls)
  /\ out'.op # "Restart"

\* the step takes up call c: c is new in the bag and no call has moved
TakenUp(c) ==
  /\ CopiesIn(c, calls') > CopiesIn(c, calls)
  /\ \A e \in InFlight : ~Acting(e)

\* what findUnique returns for id in the state the step starts from
RowOf(id) == IF id \in DOMAIN db THEN db[id] ELSE NoIntent

Transfers(i) == {t \in DOMAIN txs : txs[t].intent = i}
Confirmed(i) == {t \in Transfers(i) : txs[t].state = "success"}

Executing(i) ==
  {c \in InFlight : c.op = "triggerBasePayment" /\ c.id = i /\ c.invoked}

SourceFields(r) ==
  <<r.sol_settle_proof, r.sol_tx_hash, r.payer_wallet, r.sol_settled_at>>

TargetFields(r) ==
  <<r.base_tx_hash, r.base_settle_proof, r.base_settled_at, r.completed_at>>

NoFields == <<Null, Null, Null, Null>>

\* C1: for every intent at most one target-chain transfer is submitted and
\* confirmed, and base_tx_hash is written at most once.
C1_AtMostOneTransfer ==
  \A i \in DOMAIN db :
    /\ Cardinality(Confirmed(i)) <= 1
    /\ hist[i].settlements <= 1

\* C2: of the triggerBasePayment calls running concurrently on one intent,
\* at most one has invoked executePayment.
C2_OneExecutorCall ==
  \A i \in DOMAIN db :
    BagCardinality([c \in Executing(i) |-> calls[c]]) <= 1

\* the edges of the transition graph
StatusEdges ==
  { <<"PENDING", "SOL_SETTLED">>, <<"SOL_SETTLED", "BASE_SETTLING">>,
    <<"BASE_SETTLING", "BASE_SETTLED">>, <<"BASE_SETTLING", "SOL_SETTLED">>,
    <<"PENDING", "EXPIRED">> }

\* C3: every change of an intent's stored status is an edge of the
\* transition graph.
C3_OnlyGraphEdges ==
  [][\A i \in DOMAIN db :
       db'[i].status # db[i].status =>
         <<db[i].status, db'[i].status>> \in StatusEdges]_vars

\* C4: BASE_SETTLED is terminal: once stored, the status never changes.
C4_SettledIsTerminal ==
  [][\A i \in DOMAIN db :
       db[i].status = "BASE_SETTLED" => db'[i].status = "BASE_SETTLED"]_vars

\* C5: EXPIRED is terminal: once stored, the status never changes.
C5_ExpiredIsTerminal ==
  [][\A i \in DOMAIN db :
       db[i].status = "EXPIRED" => db'[i].status = "EXPIRED"]_vars

\* C6: a submitSolanaProof call on an intent whose expires_at was already in
\* the past when the call read it does not succeed.
C6_OverdueProofRejected ==
  ~(out.op = "submitSolanaProof" /\ out.overdue /\ out.res = "ok")

\* C7: a submitSolanaProof call that begins after another one on the same
\* intent has stored its proof is rejected with the invalid-state error and
\* writes nothing: it has read a status other than PENDING and never gets
\* past the status guard.
C7_SecondProofRejected ==
  /\ \A c \in InFlight :
       (c.op = "submitSolanaProof" /\ c.afterProof) =>
         /\ c.pc = "check" /\ ~c.wrote
         /\ c.intent.status \notin {"", "PENDING"}
  /\ (out.op = "submitSolanaProof" /\ out.afterProof) =>
       /\ out.res = "BadRequest"
       /\ out.err = "state"
       /\ ~out.wrote

\* a second proof with another tx_hash has been rejected
C7_Witness ==
  /\ out.op = "submitSolanaProof" /\ out.afterProof
  /\ out.res = "BadRequest"
  /\ db[out.id].sol_tx_hash # Null
  /\ db[out.id].sol_tx_hash # Some(out.tx_hash)

\* C8: once the source-leg fields of an intent hold a value they never
\* change.
C8_SourceLegWrittenOnce ==
  [][\A i \in DOMAIN db :
       db[i].sol_tx_hash # Null =>
         SourceFields(db'[i]) = SourceFields(db[i])]_vars

\* C9: a triggerBasePayment call that reads a status other than SOL_SETTLED
\* is rejected with the invalid-state error, never invokes executePayment and
\* does not change the record: it stops at the status guard, and the step
\* that answers it writes nothing.
C9_StaleTriggerRejected ==
  /\ [](\A c \in InFlight :
          (c.op = "triggerBasePayment" /\ c.intent.status # "SOL_SETTLED") =>
            (c.pc = "check" /\ ~c.invoked /\ ~c.wrote))
  /\ []((out.op = "triggerBasePayment" /\ out.res # "NotFound"
          /\ out.read # "SOL_SETTLED") =>
            (out.res = "BadRequest" /\ ~out.invoked /\ ~out.wrote))
  /\ [][\A c \in InFlight :
          (Acting(c) /\ c.op = "triggerBasePayment"
             /\ c.intent.status # "SOL_SETTLED") =>
            /\ db' = db
            /\ out'.res = IF IsNull(c.intent) THEN "NotFound" ELSE "BadRequest"]_vars

\* a trigger arriving while the target leg is being settled has been rejected
C9_Witness ==
  /\ out.op = "triggerBasePayment" /\ out.read = "BASE_SETTLING"
  /\ out.res = "BadRequest"
  /\ db[out.id].status = "BASE_SETTLING"

\* C10: when executePayment fails, the call answers with the
\* settlement-failed error and leaves the intent in SOL_SETTLED with no
\* target-leg field set.
C10_FailureRollsBack ==
  (out.op = "triggerBasePayment" /\ out.res = "InternalServerError") =>
    /\ db[out.id].status = "SOL_SETTLED"
    /\ TargetFields(db[out.id]) = NoFields

\* the trigger calls on intent i to which executePayment has returned success
Returned(i) ==
  {c \in InFlight : c.op = "triggerBasePayment" /\ c.id = i
                     /\ c.pc \in {"finalize", "return"}}

\* C11: a triggerBasePayment call to which executePayment returned success
\* ends with the intent in BASE_SETTLED, base_tx_hash the returned hash and
\* base_settle_proof, base_settled_at and completed_at set; once a transfer
\* is confirmed to a call the intent is never put back to SOL_SETTLED.
C11_SuccessIsRecorded ==
  /\ []((out.op = "triggerBasePayment" /\ out.res = "ok") =>
          /\ db[out.id].status = "BASE_SETTLED"
          /\ db[out.id].base_tx_hash = Some(out.txHash)
          /\ db[out.id].base_settle_proof # Null
          /\ db[out.id].base_settled_at # Null
          /\ db[out.id].completed_at # Null)
  /\ [][\A i \in DOMAIN db :
          (hist[i].settlements > 0 \/ Returned(i) # {}) =>
            (db'[i].status = "SOL_SETTLED" => db[i].status = "SOL_SETTLED")]_vars

\* C12: while an executePayment call for an intent starts or is in flight,
\* the intent has no base_tx_hash and no earlier executePayment call for it
\* has returned success.
C12_NoExecutionAfterSuccess ==
  \A c \in InFlight :
    (c.op = "triggerBasePayment" /\ c.pc \in {"balance", "transfer", "confirm"}) =>
      /\ db[c.id].base_tx_hash = Null
      /\ hist[c.id].settlements = 0
      /\ Returned(c.id) = {}

\* C13: a submitSolanaProof call whose verification does not succeed fails,
\* writes nothing and schedules no dispatch: the step that answers it leaves
\* every record, the scheduled callbacks and the history as they were, so the
\* intent it read as PENDING can still be settled by a later valid proof.
C13_FailedVerificationChangesNothing ==
  /\ []((out.op = "submitSolanaProof" /\ out.err \in VerifierFailures) =>
          /\ out.res \notin {"ok", ""}
          /\ out.read = "PENDING"
          /\ ~out.wrote)
  /\ [][(out'.op = "submitSolanaProof" /\ out'.err \in VerifierFailures) =>
          /\ db' = db
          /\ immediates' = immediates
          /\ hist' = hist]_vars

\* a proof submitted right after a failed verification has been accepted
\* and has settled the source leg of the intent, which was still PENDING
C13_Witness ==
  /\ out.op = "submitSolanaProof" /\ out.retry
  /\ out.res = "ok" /\ out.read = "PENDING"
  /\ db[out.id].status = "SOL_SETTLED"
  /\ db[out.id].sol_tx_hash = Some(out.tx_hash)

\* C14: submitSolanaProof answers an unavailable verifier (transport failure
\* or non-2xx response) with another error class than a proof the verifier
\* has rejected.
C14_UnavailableIsDistinct ==
  (out.op = "submitSolanaProof" /\ out.err \in {"non2xx", "unreachable"}) =>
    out.res # ProofErrorClass("invalid")

\* the trigger calls in flight on intent i that a setImmediate callback started
Dispatched(i) ==
  {c \in InFlight : c.op = "triggerBasePayment" /\ c.id = i
                     /\ c.origin = "dispatch"}

\* the success answer of submitSolanaProof reports SOL_SETTLED and is
\* produced while the callback it scheduled has not started
AckBeforeDispatch ==
  (out.op = "submitSolanaProof" /\ out.res = "ok") =>
    /\ out.status = "SOL_SETTLED" /\ out.wrote
    /\ immediates # <<>>
    /\ immediates[Len(immediates)] = out.id
    /\ hist[out.id].proofs = 1 => Dispatched(out.id) = {}

\* C15 as stated: submitSolanaProof answers SOL_SETTLED before the dispatched
\* triggerBasePayment starts, and every failure of the dispatched call
\* (executor failure or invalid-state rejection) leaves the intent in
\* SOL_SETTLED.
C15_DispatchFailureLeavesSourceSettled ==
  /\ AckBeforeDispatch
  /\ (out.origin = "dispatch" /\ out.res \in {"BadRequest", "InternalServerError"}) =>
       db[out.id].status = "SOL_SETTLED"

\* C15 amended: submitSolanaProof stores SOL_SETTLED and answers SOL_SETTLED
\* before the dispatched triggerBasePayment starts; the answer of the
\* dispatched call goes to no client; on an executor failure the dispatched
\* call stores SOL_SETTLED, and a dispatched call rejected for invalid state
\* changes no record.
C15_DispatchFailureIsHarmless ==
  /\ []AckBeforeDispatch
  /\ [][\A c \in InFlight :
          (Acting(c) /\ c.op = "submitSolanaProof" /\ c.pc = "update") =>
            db'[c.id].status = "SOL_SETTLED"]_vars
  /\ [][\A c \in InFlight :
          (Acting(c) /\ c.origin = "dispatch" /\ c.pc = "rollback") =>
            db'[c.id].status = "SOL_SETTLED"]_vars
  /\ [][\A c \in InFlight :
          (Acting(c) /\ c.origin = "dispatch"
             /\ out'.res \in {"BadRequest", "InternalServerError"}) =>
            db' = db]_vars
  /\ []((out.origin = "dispatch" /\ out.res = "InternalServerError") =>
          (out.invoked /\ out.wrote))

\* the dispatched call of the only accepted proof has failed in the executor
C15_Witness ==
  /\ out.op = "triggerBasePayment" /\ out.origin = "dispatch"
  /\ out.res = "InternalServerError" /\ out.invoked
  /\ hist[out.id].proofs = 1
  /\ db[out.id].status = "SOL_SETTLED"

\* the latest step answered a getIntent call that had read a PENDING record
AnsweredPending ==
  out.op = "getIntent" /\ out.res = "ok" /\ out.read = "PENDING"

\* C17 as stated: on a record read as PENDING, getIntent evaluated before
\* expires_at reports PENDING and writes nothing; evaluated at expires_at or
\* later it reports EXPIRED and stores EXPIRED.
C17_ExpiresAtDeadline ==
  AnsweredPending =>
    /\ out.at < out.body.expires_at =>
         (out.status = "PENDING" /\ ~out.wrote)
    /\ out.at >= out.body.expires_at =>
         (out.status = "EXPIRED" /\ out.wrote)

\* C17 amended: on a record read as PENDING, getIntent evaluated at or
\* before expires_at reports PENDING and leaves every record unchanged;
\* evaluated strictly after expires_at it stores EXPIRED and reports
\* EXPIRED; no other step of getIntent changes a record.
C17_ExpiresAfterDeadline ==
  /\ [](AnsweredPending =>
          /\ out.at <= out.body.expires_at =>
               (out.status = "PENDING" /\ ~out.wrote)
          /\ out.at > out.body.expires_at =>
               (out.status = "EXPIRED" /\ out.wrote))
  /\ [](\A c \in InFlight :
          (c.op = "getIntent" /\ c.pc \in {"expire", "return"}) =>
            /\ c.intent.status = "PENDING"
            /\ c.at > c.intent.expires_at
            /\ c.wrote <=> c.pc = "return")
  /\ [][\A c \in InFlight :
          (Acting(c) /\ c.op = "getIntent") =>
            IF c.pc = "expire"
              THEN db' = [db EXCEPT ![c.id].status = "EXPIRED"]
              ELSE db' = db]_vars

\* getIntent evaluated at the instant expires_at has reported PENDING
C17_Witness ==
  /\ AnsweredPending
  /\ out.at = out.body.expires_at
  /\ out.status = "PENDING"
  /\ db[out.id].status = "PENDING"

\* the fields of a getIntent answer that the two legs fill in
LegFields(r) ==
  <<r.payer_wallet, r.sol_tx_hash, r.base_tx_hash, r.sol_settled_at,
    r.base_settled_at, r.completed_at>>

\* the step in which the table grows is the insert of one createIntent
\* call: it adds one record, under an id no record has, with the amount and
\* recipient of the call's dto, status PENDING and no leg field set, stamped
\* with the time of the insert, and it changes no other record
InsertsOneRecord ==
  Len(db') # Len(db) =>
    /\ Len(db') = Len(db) + 1
    /\ \A i \in DOMAIN db :
         db'[i] = db[i] /\ db[i].intent_id # db'[Len(db')].intent_id
    /\ \E c \in Creating :
         LET r == db'[Len(db')] IN
         /\ Acting(c)
         /\ r.intent_id = Len(db')
         /\ r.amount = c.createIntentDto.amount /\ r.amount \in Amounts
         /\ r.merchant_recipient = c.createIntentDto.merchant_recipient
         /\ r.merchant_recipient \in Recipients
         /\ r.status = "PENDING"
         /\ SourceFields(r) = NoFields /\ TargetFields(r) = NoFields
         /\ r.created_at = now' /\ c.at <= r.created_at

\* expires_at of the record inserted is ten minutes after the time the call
\* read, which is not later than created_at
ExpiresAfterCall ==
  Len(db') # Len(db) =>
    \E c \in Creating :
      /\ Acting(c)
      /\ db'[Len(db')].expires_at = c.at + 600000
      /\ db'[Len(db')].expires_at <= db'[Len(db')].created_at + 600000

\* expires_at of the record inserted is ten minutes after its created_at
ExpiresAfterCreatedAt ==
  Len(db') # Len(db) =>
    db'[Len(db')].expires_at = db'[Len(db')].created_at + 600000

\* the createIntent calls that hold the row create returned
Created == {c \in InFlight : c.op = "createIntent" /\ c.pc = "answer"}

\* every createIntent call answers with the record it inserted, and no two
\* calls hold or answer with the same id
AnswersItsRecord ==
  /\ \A c \in Created :
       /\ c.id \in DOMAIN db /\ CopiesIn(c, calls) = 1
       /\ c.intent.intent_id = c.id
       /\ \A e \in Created : e # c => e.id # c.id
  /\ out.op = "createIntent" =>
       /\ out.res = "ok" /\ out.id \in DOMAIN db
       /\ out.body = [ intent_id |-> out.id,
                       amount |-> db[out.id].amount,
                       merchant_recipient |-> db[out.id].merchant_recipient,
                       status |-> "PENDING",
                       created_at |-> db[out.id].created_at,
                       expires_at |-> db[out.id].expires_at ]
       /\ \A c \in Created : c.id # out.id

\* a getIntent taken up directly after createIntent answered with its id,
\* before any proof was accepted for the intent, and evaluated not after
\* expires_at, returns PENDING with the six leg fields unset
FollowingGetIntentIsPending ==
  (/\ out.op = "getIntent" /\ out.fresh /\ ~out.afterProof
   /\ out.at <= db[out.id].expires_at) =>
    /\ out.res = "ok"
    /\ out.status = "PENDING" /\ out.body.status = "PENDING"
    /\ out.body.intent_id = out.id
    /\ LegFields(out.body) = <<Null, Null, Null, Null, Null, Null>>

LegOf(payment) ==
  IF payment = Null
    THEN Null
    ELSE <<payment[1].tx_hash, payment[1].settle_proof, payment[1].settled_at>>

\* C19: getReceipt changes no record (it does not expire an overdue PENDING
\* intent); it answers for an existing intent in every status; what it
\* returns is determined by the record it read, which is the stored record
\* of its id, and the configured network of the process, which does not
\* change, with solana_payment present exactly when sol_tx_hash is set and
\* base_payment present exactly when base_tx_hash is set.
C19_ReceiptIsPureProjection ==
  /\ [][\A c \in BagToSet(calls') :
          (TakenUp(c) /\ c.op = "getReceipt") =>
            (db' = db /\ c.intent = RowOf(c.id))]_vars
  /\ [][baseNetwork' = baseNetwork]_vars
  /\ [][\A c \in InFlight :
          (Acting(c) /\ c.op = "getReceipt") =>
            LET r == c.intent IN
            /\ db' = db
            /\ out'.op = "getReceipt" /\ out'.id = c.id
            /\ out'.res = "ok" <=> r # NoIntent
            /\ out'.res = "ok" =>
                 /\ out'.body = Receipt(r)
                 /\ out'.body.status = r.status
                 /\ r.status \in {"PENDING", "SOL_SETTLED", "BASE_SETTLING",
                                   "BASE_SETTLED", "EXPIRED"}
                 /\ <<out'.body.intent_id, out'.body.amount,
                       out'.body.merchant_recipient, out'.body.payer_wallet>>
                      = <<c.id, r.amount, r.merchant_recipient, r.payer_wallet>>
                 /\ <<out'.body.created_at, out'.body.completed_at,
                       out'.body.expires_at>>
                      = <<r.created_at, r.completed_at, r.expires_at>>
                 /\ out'.body.solana_payment # Null <=> r.sol_tx_hash # Null
                 /\ out'.body.base_payment # Null <=> r.base_tx_hash # Null
                 /\ r.sol_tx_hash # Null =>
                      LegOf(out'.body.solana_payment)
                        = <<r.sol_tx_hash, r.sol_settle_proof, r.sol_settled_at>>
                 /\ r.base_tx_hash # Null =>
                      LegOf(out'.body.base_payment)
                        = <<r.base_tx_hash, r.base_settle_proof,
                            r.base_settled_at>>]_vars

\* a receipt has been returned for an overdue intent that is still PENDING
C19_Witness ==
  /\ out.op = "getReceipt" /\ out.res = "ok"
  /\ out.body.status = "PENDING"
  /\ now > db[out.id].expires_at
  /\ db[out.id].status = "PENDING"

\* what C20 requires of one executePayment call x (in flight or answered),
\* asked to pay `amount` base units: it has submitted at most one transfer,
\* none before reading a balance that covers the amount, and on a balance
\* below the amount it fails as insufficient without a transfer
BalanceCheckedFirst(x, amount) ==
  /\ x.sent <= 1
  /\ x.sent > 0 => (x.seen # Null /\ x.seen[1] >= amount)
  /\ (x.seen # Null /\ x.seen[1] < amount) =>
       (x.err = "insufficient" /\ x.sent = 0 /\ x.txHash = 0)

\* C20: every executePayment call reads the balance before it submits a
\* transfer; on a balance below the amount it fails with the
\* insufficient-funds error and submits nothing; it submits at most one
\* transfer.
C20_BalanceBeforeTransfer ==
  /\ [](\A c \in InFlight :
          (c.op = "triggerBasePayment" /\ ~IsNull(c.intent)) =>
            /\ BalanceCheckedFirst(c, db[c.id].amount * 10000)
            /\ c.pc = "transfer" => (c.seen # Null /\ c.sent = 0)
            /\ c.err = "insufficient" => c.pc \in {"rollback", "throw"})
  /\ []((out.op = "triggerBasePayment" /\ out.invoked) =>
          /\ BalanceCheckedFirst(out, db[out.id].amount * 10000)
          /\ out.err = "insufficient" => out.res = "InternalServerError")
  /\ [][Len(txs') # Len(txs) =>
          /\ Len(txs') = Len(txs) + 1
          /\ \E c \in InFlight :
               /\ c.op = "triggerBasePayment" /\ c.pc = "transfer"
               /\ c.seen # Null /\ c.seen[1] >= txs'[Len(txs')].value
               /\ txs'[Len(txs')].intent = c.id]_vars

\* an executePayment call has failed on an empty wallet without submitting
\* a transfer
C20_Witness ==
  /\ out.op = "triggerBasePayment" /\ out.invoked
  /\ out.err = "insufficient" /\ out.res = "InternalServerError"
  /\ out.seen # Null /\ out.seen[1] < db[out.id].amount * 10000
  /\ out.sent = 0
  /\ Transfers(out.id) = {}

\* intent i is in BASE_SETTLING and no call on it is in flight: every call
\* that starts from here is answered without a write
Orphaned(i) ==
  /\ db[i].status = "BASE_SETTLING"
  /\ \A c \in InFlight : c.id # i

\* C16: no intent stays in BASE_SETTLING for ever, also when the process
\* stops during executePayment or the final or the rollback write fails:
\* an intent in BASE_SETTLING always has a call in flight that will move it
\* on.
C16_NoOrphanedSettling ==
  \A i \in DOMAIN db : ~Orphaned(i)

\* once no call is left on an intent in BASE_SETTLING, no operation moves
\* it out of BASE_SETTLING any more
OrphanedForEver ==
  [][\A i \in DOMAIN db : Orphaned(i) => db'[i].status = "BASE_SETTLING"]_vars

\* the status that the write of call c is conditioned on in the transition
\* graph: BASE_SETTLING for the final and the rollback write of
\* triggerBasePayment, else the status the call read and checked
ExpectedPrior(c) ==
  IF c.op = "triggerBasePayment" /\ c.pc \in {"finalize", "rollback"}
    THEN "BASE_SETTLING"
    ELSE c.intent.status

\* C21: every write that changes an intent's status is applied only when
\* the stored status at the moment of the write is the status the operation
\* read and checked earlier.
C21_WritesAreCompareAndSwap ==
  [][\A i \in DOMAIN db :
       db'[i].status # db[i].status =>
         \E c \in InFlight :
           Acting(c) /\ c.id = i /\ db[i].status = ExpectedPrior(c)]_vars

\* C23: when executePayment fails after it has submitted its transfer, the
\* intent is not put back to SOL_SETTLED, and no second transfer is
\* submitted for the intent while the first is pending or has landed.
C23_UnknownOutcomeNotRolledBack ==
  /\ (out.op = "triggerBasePayment" /\ out.sent > 0 /\ out.res # "ok") =>
       db[out.id].status # "SOL_SETTLED"
  /\ \A i \in DOMAIN db :
       Cardinality({t \in Transfers(i) : txs[t].state # "reverted"}) <= 1

\* C26: the rollback write changes the status and nothing else: after a
\* failed target-leg attempt the record holds the source-leg fields that
\* submitSolanaProof recorded and every other field as it was.
C26_RollbackKeepsSourceLeg ==
  /\ [][\A c \in InFlight :
          (Acting(c) /\ c.op = "triggerBasePayment" /\ c.pc = "rollback") =>
            /\ db' # db => db' = [db EXCEPT ![c.id].status = "SOL_SETTLED"]
            /\ [db'[c.id] EXCEPT !.status = db[c.id].status] = db[c.id]
            /\ \A i \in DOMAIN db : i # c.id => db'[i] = db[i]]_vars
  /\ [][\A c \in InFlight :
          (Acting(c) /\ c.op = "triggerBasePayment" /\ c.pc = "throw") =>
            (db' = db /\ out'.res = "InternalServerError")]_vars
  /\ []((out.op = "triggerBasePayment" /\ out.res = "InternalServerError") =>
          /\ db[out.id].sol_settle_proof # Null
          /\ db[out.id].sol_tx_hash # Null
          /\ db[out.id].sol_settled_at # Null
          /\ \E dto \in Dtos :
               <<db[out.id].sol_settle_proof, db[out.id].sol_tx_hash,
                 db[out.id].payer_wallet>>
                 = <<Some(dto.settle_proof), Some(dto.tx_hash),
                     OrNull(dto.payer_wallet)>>)

\* a target-leg attempt has failed and the source leg is still on record
C26_Witness ==
  /\ out.op = "triggerBasePayment" /\ out.res = "InternalServerError"
  /\ out.invoked
  /\ db[out.id].status = "SOL_SETTLED"
  /\ db[out.id].sol_tx_hash # Null
  /\ db[out.id].payer_wallet # Null

\* C27: getIntent stores EXPIRED only over a stored status PENDING of an
\* intent past its expires_at, also when its call overlaps a
\* submitSolanaProof or triggerBasePayment call.
C27_ExpiryIsAtomic ==
  [][\A c \in InFlight :
       (Acting(c) /\ c.op = "getIntent" /\ db' # db) =>
         /\ db[c.id].status = "PENDING"
         /\ IsPastExpiry(db[c.id], now)]_vars

\* the fields of a record that are set when it is created
CreationFields(r) ==
  <<r.intent_id, r.amount, r.merchant_recipient, r.payer_chain,
    r.target_chain, r.created_at, r.expires_at>>

\* C28: no operation changes an intent's intent_id, amount,
\* merchant_recipient, payer_chain, target_chain, created_at or expires_at,
\* and no record is ever deleted: the stored intents only grow.
C28_CreationFieldsImmutable ==
  /\ [][/\ Len(db') >= Len(db)
        /\ \A i \in DOMAIN db :
             CreationFields(db'[i]) = CreationFields(db[i])]_vars
  /\ [](\A i \in DOMAIN db :
          /\ db[i].intent_id = i
          /\ db[i].amount \in Amounts
          /\ db[i].merchant_recipient \in Recipients
          /\ db[i].payer_chain = "solana" /\ db[i].target_chain = "base")

\* an intent has been through both legs, the first after time had passed
C28_Witness ==
  \E i \in DOMAIN db :
    /\ db[i].status = "BASE_SETTLED"
    /\ db[i].sol_settled_at # Null
    /\ db[i].sol_settled_at # Some(db[i].created_at)
    /\ db[i].expires_at # db[i].created_at + 600000

\* C29: every failure of the target leg is answered by triggerBasePayment
\* with the one settlement-failed error class, and the answer carries a
\* machine-readable sub-reason that tells insufficient funds and a
\* confirmation timeout from the other failures.
C29_FailureCarriesSubReason ==
  (out.op = "triggerBasePayment" /\ out.invoked /\ out.res # "ok") =>
    /\ out.res = "InternalServerError"
    /\ out.reason # ""
    /\ out.err \in {"insufficient", "confirmation"} => out.reason = out.err
    /\ out.err \notin {"insufficient", "confirmation"} =>
         out.reason \notin {"insufficient", "confirmation"}

\* C30: an intent's target-leg fields are all set while its status is
\* BASE_SETTLED and all unset in every other status.
C30_TargetLegAgreesWithStatus ==
  \A i \in DOMAIN db :
    IF db[i].status = "BASE_SETTLED"
      THEN /\ db[i].base_tx_hash # Null
           /\ db[i].base_settle_proof # Null
           /\ db[i].base_settled_at # Null
           /\ db[i].completed_at # Null
      ELSE TargetFields(db[i]) = NoFields

\* a triggerBasePayment that a client issues right after a restart lost the
\* dispatch of its intent, and that reads SOL_SETTLED, is not rejected and,
\* when the executor succeeds, stores BASE_SETTLED with its transfer
RecoveryIsAccepted ==
  /\ []((out.op = "triggerBasePayment" /\ out.recovery
           /\ out.read = "SOL_SETTLED") =>
          out.res \in {"ok", "InternalServerError"})
  /\ [][\A c \in InFlight :
          (Acting(c) /\ c.op = "triggerBasePayment" /\ c.recovery
             /\ c.pc = "finalize") =>
            /\ db'[c.id].status = "BASE_SETTLED"
            /\ db'[c.id].base_tx_hash = Some(c.txHash)
            /\ txs[c.txHash].intent = c.id]_vars

\* submitSolanaProof stores a status that triggerBasePayment accepts
StoresSourceSettled ==
  \A c \in InFlight :
    (Acting(c) /\ c.op = "submitSolanaProof" /\ c.pc = "update") =>
      (db'[c.id].status = "SOL_SETTLED" /\ TriggerAccepted(db'[c.id]))

ProofInTime(i) ==
  /\ i \in DOMAIN db
  /\ hist[i].proofs > 0
  /\ db[i].sol_settled_at # Null
  /\ db[i].sol_settled_at[1] <= db[i].expires_at

\* the settlement wallet holds at least the amount of intent i
Funded(i) == i \in DOMAIN db /\ balance >= db[i].amount * 10000

\* intent i has been stored as BASE_SETTLED with its base_tx_hash
Settled(i) == i \in DOMAIN db /\ hist[i].settlements > 0

\* C24: with an available verifier, a funded wallet and a confirming
\* network, an intent whose proof was accepted before expiry eventually
\* reaches BASE_SETTLED with base_tx_hash populated, whether or not a client
\* also calls triggerBasePayment; a receipt of an intent in BASE_SETTLED
\* shows both legs with their settled_at.
C24_EventuallySettled ==
  /\ \A i \in IntentIds : (ProofInTime(i) /\ Funded(i)) ~> Settled(i)
  /\ []((out.op = "getReceipt" /\ out.res = "ok"
           /\ out.body.status = "BASE_SETTLED") =>
          /\ out.body.solana_payment # Null
          /\ out.body.base_payment # Null
          /\ out.body.solana_payment[1].settled_at # Null
          /\ out.body.base_payment[1].settled_at # Null)


\* a step writes no record but the one of the call that takes it
WritesOwnRecord ==
  /\ Len(db') >= Len(db)
  /\ \A i \in DOMAIN db :
       db'[i] # db[i] => \E c \in InFlight : Acting(c) /\ c.id = i

\* a call is taken up with the record of its own id, or with none
ReadsOwnRecord ==
  \A c \in BagToSet(calls') : TakenUp(c) => c.intent = RowOf(c.id)

\* a call holds the record of its own intent
HoldsOwnRecord ==
  \A c \in InFlight : IsNull(c.intent) \/ c.intent.intent_id = c.id

\* the step that answers a call answers from the record the call holds
AnswersFromOwnRecord ==
  \A c \in InFlight :
    (Acting(c) /\ out'.op = c.op /\ c.op # "createIntent") =>
      /\ out'.id = c.id
      /\ out'.res = "NotFound" <=> IsNull(c.intent)
      /\ out'.read = c.intent.status
      /\ (c.op = "getIntent" /\ out'.res = "ok") =>
           out'.body = IntentView(c.intent, out'.status)
      /\ (c.op = "getReceipt" /\ out'.res = "ok") =>
           out'.body = Receipt(c.intent)

\* C25: operations on one intent neither read nor modify the record of
\* another intent: every step of getIntent, submitSolanaProof,
\* triggerBasePayment and getReceipt on intent A leaves every field of every
\* other intent B unchanged, and what the operation reads, and answers from,
\* is the record of A whatever the status of B
C25_IntentsAreIndependent ==
  /\ [][WritesOwnRecord /\ ReadsOwnRecord /\ AnswersFromOwnRecord]_vars
  /\ []HoldsOwnRecord

\* the target leg of the first intent has just been settled while the second
\* intent waits with its source leg paid
C25_Witness ==
  /\ Len(db) = MaxPair
  /\ out.op = "triggerBasePayment" /\ out.res = "ok" /\ out.id = 1
  /\ db[1].status = "BASE_SETTLED"
  /\ db[2].status = "SOL_SETTLED"

\* the triggerBasePayment calls on intent i that are inside executePayment
InExecutePayment(i) ==
  {c \in InFlight : c.op = "triggerBasePayment" /\ c.id = i
                     /\ c.pc \in {"balance", "transfer", "confirm"}}

\* while a call is inside executePayment it is the only one, and the stored
\* status is BASE_SETTLING
LockHeld ==
  \A i \in DOMAIN db :
    InExecutePayment(i) # {} =>
      /\ db[i].status = "BASE_SETTLING"
      /\ BagCardinality([c \in InExecutePayment(i) |-> calls[c]]) = 1

\* a record in BASE_SETTLING is changed by the call that took the lock only
LockRespected ==
  \A i \in DOMAIN db :
    (db[i].status = "BASE_SETTLING" /\ db'[i] # db[i]) =>
      \E c \in Executing(i) : Acting(c)

\* C31: BASE_SETTLING is a lock held by exactly one in-flight attempt:
\* whenever an executePayment call for an intent is in flight the stored
\* status is BASE_SETTLING, and while the status is BASE_SETTLING no getIntent,
\* submitSolanaProof or further triggerBasePayment call changes the record.
C31_SettlingIsALock == []LockHeld /\ [][LockRespected]_vars

\* the source leg is on record r
SourcePaid(r) == r.sol_settle_proof # Null /\ r.sol_tx_hash # Null

\* a submitSolanaProof call on intent i passed verification and stored its
\* proof and transaction hash
SourceVerified(i) ==
  /\ i \in DOMAIN db
  /\ hist[i].proofs > 0
  /\ SourcePaid(db[i])
  /\ db[i].status # "PENDING"

\* C32: no target-chain transfer is attempted without a verified source leg:
\* executePayment is invoked for an intent only after a submitSolanaProof call
\* for that intent passed verification and recorded sol_settle_proof and
\* sol_tx_hash, and with the stored amount and merchant_recipient of that
\* intent; it is never invoked for an intent that is PENDING or was never
\* source-settled.
C32_NoTransferWithoutSourceLeg ==
  /\ \A c \in InFlight :
       (c.op = "triggerBasePayment" /\ c.invoked) =>
         /\ SourceVerified(c.id)
         /\ c.intent.status = "SOL_SETTLED" /\ SourcePaid(c.intent)
         /\ c.intent.intent_id = c.id
         /\ c.intent.amount = db[c.id].amount
         /\ c.intent.merchant_recipient = db[c.id].merchant_recipient
  /\ \A t \in DOMAIN txs :
       /\ SourceVerified(txs[t].intent)
       /\ txs[t].to = db[txs[t].intent].merchant_recipient
       /\ txs[t].value = AmountInUsdc(db[txs[t].intent].amount)
  /\ (out.op = "triggerBasePayment" /\ out.invoked) => SourceVerified(out.id)

\* the transfer of the second intent has been submitted while the first
\* intent, which has no proof, is still PENDING
C32_Witness ==
  /\ Len(db) = MaxPair
  /\ db[1].status = "PENDING" /\ hist[1].proofs = 0
  /\ Len(txs) = 1 /\ txs[1].intent = 2
  /\ \E c \in InFlight :
       c.op = "triggerBasePayment" /\ c.id = 2 /\ c.invoked /\ c.pc = "confirm"


====
